---- MODULE Spec2Model ----
(***************************************************************************)
(* Model of eval_tool_n_standard_import.py: the curated-standards record   *)
(* store, the enrichment passes of CuratedStandards, the clients they call *)
(* (Biblio, GoogleScholar, NCBIUtils) and the table renderer.              *)
(*                                                                         *)
(* Conventions                                                             *)
(*  - a Python str that the code compares, slices or case-folds is a       *)
(*    sequence of one-character strings; other strings are TLA+ strings;   *)
(*  - an optional dict key is a set: {} when the key is absent, {v} when   *)
(*    it holds v ("k in d" is d.k # {});                                   *)
(*  - a call that can raise returns a record with a field raised, "none"   *)
(*    when it returned normally, else the exception's class name;          *)
(*  - a float that is a quotient of two integers is the reduced fraction   *)
(*    [n, d]: equal quotients are equal floats and the order is the same.  *)
(***************************************************************************)
EXTENDS Integers, Sequences, FiniteSets, TLC

VARIABLES
    curated_standards,  \* CuratedStandards.curated_standards: list of dicts
    bib_database,       \* Biblio.bib_database.entries: list of dicts
    survey,             \* rows of SURVEY_RESPONSES_FILE, one per respondent
    last,               \* what the most recent operation returned/reported
    pc,                 \* position of main() in its sequence of calls
    call,               \* one client call: its inputs and its result
    net                 \* while a client call is followed line by line: what
                        \* the client did last of time.sleep ("sleep") and
                        \* sending a request ("request"); "none" before

vars == <<curated_standards, bib_database, survey, last, pc, call, net>>

----------------------------------------------------------------------------
(* Bounds of the model                                                     *)

NumEntries == 2      \* rows of the curated spreadsheet
MaxBib == 2          \* entries of the bibliography
MaxRespondents == 2  \* rows of the survey spreadsheet
MaxCites == 3        \* largest citation total a service reports
MaxXmlLen == 5       \* elements of an elink response
MaxIds == 3          \* identifiers an esearch response lists

----------------------------------------------------------------------------
(* Strings                                                                 *)

\* str.casefold() on the alphabet of the model
FoldChar(c) == IF c = "F" THEN "f" ELSE IF c = "B" THEN "b" ELSE c

casefold(s) == [i \in DOMAIN s |-> FoldChar(s[i])]

\* s[:-1]
DropLast(s) == IF Len(s) = 0 THEN s ELSE SubSeq(s, 1, Len(s) - 1)

T_Foo == <<"F", "o">>
T_foo == <<"f", "o">>
T_Bar == <<"B">>

Titles == {T_Foo, T_foo, T_Bar}

RECURSIVE SeqsUpTo(_, _)
\* all sequences over S of length 0..n
SeqsUpTo(S, n) ==
    IF n = 0 THEN {<<>>}
    ELSE LET shorter == SeqsUpTo(S, n - 1)
         IN  shorter \cup {Append(q, x) : q \in {p \in shorter : Len(p) = n - 1}, x \in S}

\* the entries of a sequence, as a set
Range(s) == {s[i] : i \in DOMAIN s}

----------------------------------------------------------------------------
(* The record store                                                        *)

\* one row of the curated spreadsheet as spreadsheet_into_dicts returns it:
\* the three columns of the sheet, none of the enrichment keys
LoadedEntry(name, title) ==
    [STANDARD |-> name, TYPE |-> "tool", TITLE |-> title,
     BIB_KEY |-> {}, PUB_YEAR |-> {}, PM_ID |-> {}, PM_CITATIONS |-> {},
     GS_CITATIONS |-> {}, SURVEY_ADOPTION_RATE |-> {}]

EntryPool == {LoadedEntry("A", T_Foo), LoadedEntry("B", T_foo), LoadedEntry("B", T_Bar)}

\* the stores spreadsheet_into_dicts can return, 1..NumEntries rows
LoadedStores == SeqsUpTo(EntryPool, NumEntries) \ {<<>>}

\* what an operation reports: its name, the exception it raised if any, the
\* number of entries its loop visited, the pass's error list, and for the
\* renderer the rows it returned and the date it read
Outcome(op, raised, visited, missing, rows, today) ==
    [op |-> op, raised |-> raised, visited |-> visited, missing |-> missing,
     rows |-> rows, today |-> today]

NoDate == [year |-> 0, yday |-> 0]

NoOutcome == Outcome("init", "none", 0, <<>>, <<>>, NoDate)

\* a client call: the function, its arguments, what the service answers,
\* whether it has run and what it returned
Call(fn, title, pm_id, response, done, result) ==
    [fn |-> fn, title |-> title, pm_id |-> pm_id, response |-> response,
     done |-> done, result |-> result]

NoCall == Call("none", <<>>, 0, <<>>, FALSE, <<>>)

----------------------------------------------------------------------------
(* Biblio                                                                  *)

BibPool == {[title |-> T_Foo, ID |-> "foo99"],
            [title |-> T_Foo, ID |-> "dup07"],
            [title |-> T_foo, ID |-> "low20"]}

Bibliographies == SeqsUpTo(BibPool, MaxBib)

\* a comparison that ignores case, as get_pm_id's does
same_title_ignoring_case(citation, title) == casefold(citation.title) = casefold(title)

\* citation['title'] == title
same_title(citation, title) == citation.title = title

RECURSIVE first_match(_, _, _)
first_match(entries, title, i) ==
    IF i > Len(entries) THEN {}
    ELSE IF same_title(entries[i], title) THEN {entries[i].ID}
    ELSE first_match(entries, title, i + 1)

\* Biblio.get_entry_key: the ID of the first citation whose title is title,
\* None ({}) when the loop ends without a return
get_entry_key(entries, title) == first_match(entries, title, 1)

\* CuratedStandards.read_curated_standards_column
read_curated_standards_column(cs, col_name) ==
    [i \in DOMAIN cs |-> cs[i][col_name]]

\* CuratedStandards.check_all_titles: reports the titles without a key and
\* writes nothing
check_all_titles(cs, entries) ==
    LET titles == read_curated_standards_column(cs, "TITLE")
        \* the code collects them in a set and only prints it
        miss == SelectSeq(titles, LAMBDA t : get_entry_key(entries, t) = {})
    IN  [cs |-> cs, raised |-> "none", visited |-> Len(titles), missing |-> miss]

RECURSIVE bib_key_loop(_, _, _, _)
bib_key_loop(cs, entries, i, missing) ==
    IF i > Len(cs)
    THEN [cs |-> cs, raised |-> "none", visited |-> Len(cs), missing |-> missing]
    ELSE LET title == cs[i].TITLE
             entry_key == get_entry_key(entries, title)
         IN  IF entry_key # {}
             THEN bib_key_loop([cs EXCEPT ![i].BIB_KEY = entry_key], entries,
                               i + 1, missing)
             ELSE bib_key_loop(cs, entries, i + 1, Append(missing, title))

\* CuratedStandards.enrich_with_bib_key
enrich_with_bib_key(cs, entries) == bib_key_loop(cs, entries, 1, <<>>)

----------------------------------------------------------------------------
(* GoogleScholar                                                           *)

\* a response of the search-results service: the list of organic results;
\* of a result, the year PUB_YEAR_RE finds in publication_info.summary ({}
\* when it finds none) and inline_links.cited_by.total ({} without the key)
GsResult(year, cited_by) == [year |-> year, cited_by |-> cited_by, title |-> T_foo]

GsResponses(years, cites) ==
    {[organic_results |-> <<>>]} \cup
    {[organic_results |-> <<GsResult(y, c)>>] : y \in years, c \in cites}

\* GoogleScholar.get_gs_results with mock=False
get_gs_results(title, data) ==
    IF Len(data.organic_results) = 0
    THEN [raised |-> "IndexError", gs_title |-> <<>>, num_citations |-> 0,
          pub_year |-> {}, errors |-> <<>>]
    ELSE LET first == data.organic_results[1]
             match == first.year
             errors == IF match = {} THEN <<"cannot get year">> ELSE <<>>
             num_citations == IF first.cited_by # {}
                              THEN CHOOSE n \in first.cited_by : TRUE
                              ELSE 0
         IN  [raised |-> "none", gs_title |-> first.title,
              num_citations |-> num_citations, pub_year |-> match, errors |-> errors]

\* the total is added to the one already stored
set_gs_data_adding(curated_standard, gs_title, num_citations, pub_date) ==
    [curated_standard EXCEPT
        !.GS_CITATIONS = IF @ = {} THEN {num_citations}
                         ELSE {(CHOOSE c \in @ : TRUE) + num_citations},
        !.PUB_YEAR = pub_date]

\* the title Google Scholar reports replaces the curated one
set_gs_data_and_title(curated_standard, gs_title, num_citations, pub_date) ==
    [curated_standard EXCEPT !.GS_CITATIONS = {num_citations}, !.PUB_YEAR = pub_date,
                             !.TITLE = gs_title]

\* the two assignments of enrich_with_gs_data to an entry; gs_title is not
\* stored
set_gs_data(curated_standard, gs_title, num_citations, pub_date) ==
    [curated_standard EXCEPT !.GS_CITATIONS = {num_citations}, !.PUB_YEAR = pub_date]

RECURSIVE gs_loop(_, _, _, _)
gs_loop(cs, r, i, missing) ==
    IF i > Len(cs)
    THEN [cs |-> cs, raised |-> "none", visited |-> Len(cs), missing |-> missing]
    ELSE LET title == cs[i].TITLE
             res == get_gs_results(title, r[i])
         IN  IF res.raised # "none"
             THEN [cs |-> cs, raised |-> res.raised, visited |-> i - 1,
                   missing |-> missing]
             ELSE IF res.pub_year = {} \/ res.errors # <<>>
             THEN gs_loop(cs, r, i + 1, Append(missing, title))
             ELSE gs_loop([cs EXCEPT ![i] = set_gs_data(cs[i], res.gs_title,
                                                        res.num_citations, res.pub_year)],
                          r, i + 1, missing)

\* CuratedStandards.enrich_with_gs_data; r[i] is the response to the i-th call
enrich_with_gs_data(cs, r) == gs_loop(cs, r, 1, <<>>)

----------------------------------------------------------------------------
(* NCBIUtils                                                               *)

\* requests.codes.ok
codes_ok == 200

StatusCodes == {200, 500}

PmIds == {11, 22, 33}

\* titles as the esummary service reports them
RawTitles == {T_Foo \o <<".">>, T_foo \o <<".">>, T_Foo, T_Bar \o <<".">>}

\* an esummary response: the status, the year PUB_YEAR_RE finds in pubdate
\* ({} when it finds none) and the title field
Summary(status, year, title) == [status_code |-> status, year |-> year, title |-> title]

\* NCBIUtils.get_pub_metadata: the tuple it returns, or the exception
get_pub_metadata(pm_id, response) ==
    IF response.status_code # codes_ok
    THEN [raised |-> "none", tuple |-> <<{}, <<"request error">>>>]
    ELSE IF response.year = {}
    THEN \* pub_year is read at the return without having been assigned
         [raised |-> "UnboundLocalError", tuple |-> <<>>]
    ELSE [raised |-> "none",
          tuple |-> <<response.year, DropLast(response.title), <<>>>>]

\* a comparison that does not ignore case
title_matches_exactly(pm_title, title) == pm_title = title

\* pm_title.casefold() == title.casefold()
title_matches(pm_title, title) == casefold(pm_title) = casefold(title)

PmResult(raised, pm_id, errors) == [raised |-> raised, pm_id |-> pm_id, errors |-> errors]

RECURSIVE pm_candidates(_, _, _, _)
\* the loop of get_pm_id over the candidates pm_ids[k..]
pm_candidates(title, pm_ids, summary, k) ==
    IF k > Len(pm_ids) THEN PmResult("none", {}, <<>>)
    ELSE LET meta == get_pub_metadata(pm_ids[k], summary[pm_ids[k]])
         IN  IF meta.raised # "none" THEN PmResult(meta.raised, {}, <<>>)
             ELSE IF Len(meta.tuple) # 3
             THEN \* "_, pm_title, errors = ..." of a 2-tuple
                  PmResult("ValueError", {}, <<>>)
             ELSE LET pm_title == meta.tuple[2]
                      errors == meta.tuple[3]
                  IN  IF errors # <<>> THEN PmResult("none", {}, errors)
                      ELSE IF title_matches(pm_title, title)
                      THEN PmResult("none", {pm_ids[k]}, <<>>)
                      ELSE pm_candidates(title, pm_ids, summary, k + 1)

\* NCBIUtils.get_pm_id. world.search is the esearch response (status and the
\* Id elements in document order), world.summary[id] the esummary response
\* for id. errors <<>> stands for None.
get_pm_id(title, world) ==
    IF world.search.status_code # codes_ok
    THEN PmResult("none", {}, <<"NCBI_ESEARCH_TEMPLATE request error">>)
    ELSE LET pm_ids == world.search.ids
         IN  IF Len(pm_ids) = 0 THEN PmResult("none", {}, <<>>)
             ELSE IF Len(pm_ids) = 1 THEN PmResult("none", {pm_ids[1]}, <<>>)
             ELSE pm_candidates(title, pm_ids, world.summary, 1)

\* the count without the subtraction
count_all_ids(xml_string) ==
    Cardinality({i \in DOMAIN xml_string : xml_string[i] = "Id"})

\* NCBIUtils.get_num_citations_from_xml; xml_string is the document as the
\* sequence of its elements' tags in document order
get_num_citations_from_xml(xml_string) ==
    Cardinality({i \in DOMAIN xml_string : xml_string[i] = "Id"}) - 1

\* NCBIUtils.get_num_citations
get_num_citations(pm_id, response) ==
    IF response.status_code # codes_ok
    THEN \* the message formats pmc_id, a name that is not defined
         [raised |-> "NameError", num_citations |-> {}, errors |-> <<>>]
    ELSE [raised |-> "none",
          num_citations |-> {get_num_citations_from_xml(response.text)},
          errors |-> <<>>]

RECURSIVE pm_ids_loop(_, _, _, _)
pm_ids_loop(cs, r, i, missing_ids) ==
    IF i > Len(cs)
    THEN [cs |-> cs, raised |-> "none", visited |-> Len(cs), missing |-> missing_ids]
    ELSE LET title == cs[i].TITLE
             res == get_pm_id(title, r[i])
         IN  IF res.raised # "none"
             THEN [cs |-> cs, raised |-> res.raised, visited |-> i - 1,
                   missing |-> missing_ids]
             ELSE IF res.pm_id # {}
             THEN pm_ids_loop([cs EXCEPT ![i].PM_ID = res.pm_id], r, i + 1, missing_ids)
             ELSE pm_ids_loop(cs, r, i + 1, Append(missing_ids, title))

\* CuratedStandards.enrich_with_pm_ids; r[i] is what the services answer
\* during the i-th call of get_pm_id
enrich_with_pm_ids(cs, r) == pm_ids_loop(cs, r, 1, <<>>)

RECURSIVE pm_cites_loop(_, _, _, _)
pm_cites_loop(cs, r, i, missing_pm_cites) ==
    IF i > Len(cs)
    THEN [cs |-> cs,
          \* pprint(missing_pm_cites, file=sys.stderr): pprint has no file
          raised |-> IF missing_pm_cites # <<>> THEN "TypeError" ELSE "none",
          visited |-> Len(cs), missing |-> missing_pm_cites]
    ELSE IF cs[i].PM_ID = {} THEN pm_cites_loop(cs, r, i + 1, missing_pm_cites)
    ELSE LET pm_id == CHOOSE p \in cs[i].PM_ID : TRUE
             res == get_num_citations(pm_id, r[i])
         IN  IF res.raised # "none"
             THEN [cs |-> cs, raised |-> res.raised, visited |-> i - 1,
                   missing |-> missing_pm_cites]
             ELSE IF res.num_citations # {}
             THEN pm_cites_loop([cs EXCEPT ![i].PM_CITATIONS = res.num_citations],
                                r, i + 1, missing_pm_cites)
             ELSE pm_cites_loop(cs, r, i + 1, Append(missing_pm_cites, cs[i].TITLE))

\* a pass that queries elink for every entry, with or without PM_id
enrich_with_num_pm_citations_of_all(cs, r) ==
    [cs |-> [i \in DOMAIN cs |->
                LET res == get_num_citations(0, r[i])
                IN  IF res.raised = "none"
                    THEN [cs[i] EXCEPT !.PM_CITATIONS = res.num_citations]
                    ELSE cs[i]],
     raised |-> "none", visited |-> Len(cs), missing |-> <<>>]

\* CuratedStandards.enrich_with_num_pm_citations; r[i] is the elink response
\* to the call made for entry i
enrich_with_num_pm_citations(cs, r) == pm_cites_loop(cs, r, 1, <<>>)

----------------------------------------------------------------------------
(* Survey                                                                  *)

\* the three questions of enrich_with_survey_data, by position
questions == 1 .. 3

RECURSIVE GCD(_, _)
GCD(a, b) == IF b = 0 THEN a ELSE GCD(b, a % b)

\* the float n / d for integers n >= 0, d > 0
Frac(n, d) == LET g == GCD(n, d) IN [n |-> n \div g, d |-> d \div g]

FracLeq(a, b) == a.n * b.d <= b.n * a.d

\* max(a, b) of two floats: the first of the largest
FracMax(a, b) == IF FracLeq(b, a) THEN a ELSE b

\* a cell of the survey sheet after responses.split(';'): the sequence of the
\* tools it names, <<>> for an empty cell
Answers == {<<>>, <<"A">>, <<"B">>, <<"A", "A">>}

SurveyRows == [questions -> Answers]

Surveys == SeqsUpTo(SurveyRows, MaxRespondents)

\* num_answers[question]: the rows with a non-empty answer
num_answers(rows, q) == Cardinality({i \in DOMAIN rows : rows[i][q] # <<>>})

RECURSIVE SumSeq(_, _)
SumSeq(f, i) == IF i = 0 THEN 0 ELSE f[i] + SumSeq(f, i - 1)

\* occurrences of tool in one answer
Occurrences(answer, tool) == Cardinality({k \in DOMAIN answer : answer[k] = tool})

\* adoption[question][tool]: one is added for every item of every answer
adoption(rows, q, tool) ==
    SumSeq([i \in DOMAIN rows |-> Occurrences(rows[i][q], tool)], Len(rows))

RECURSIVE fraction_upto(_, _, _)
\* fractional_adoption[tool] after the questions 1..q; {} while the tool has
\* no key
fraction_upto(rows, tool, q) ==
    IF q = 0 THEN {}
    ELSE LET before == fraction_upto(rows, tool, q - 1)
             count == adoption(rows, q, tool)
         IN  IF count = 0 THEN before
             ELSE {FracMax(Frac(count, num_answers(rows, q)),
                           IF before = {} THEN Frac(0, 1)
                           ELSE CHOOSE f \in before : TRUE)}

fractional_adoption(rows, tool) == fraction_upto(rows, tool, 3)

\* CuratedStandards.enrich_with_survey_data
enrich_with_survey_data(cs, rows) ==
    [cs |-> [i \in DOMAIN cs |->
                IF fractional_adoption(rows, cs[i].STANDARD) # {}
                THEN [cs[i] EXCEPT !.SURVEY_ADOPTION_RATE =
                                        fractional_adoption(rows, cs[i].STANDARD)]
                ELSE cs[i]],
     raised |-> "none", visited |-> Len(cs), missing |-> <<>>]

----------------------------------------------------------------------------
(* The table renderer                                                      *)

\* a date: its year and date.toordinal() - start, the days since 1 January
Dates == {[year |-> 2026, yday |-> 0], [year |-> 2026, yday |-> 307]}

PubYears == {2016, 2026, 2027}

IsLeap(y) == (y % 4 = 0 /\ y % 100 # 0) \/ y % 400 = 0

\* datetime.date(date.year+1, 1, 1).toordinal() - start
year_length(y) == IF IsLeap(y) THEN 366 ELSE 365

\* CuratedStandards.year_fraction, as the quotient n / d
year_fraction(date) ==
    [n |-> date.year * year_length(date.year) + date.yday,
     d |-> year_length(date.year)]

\* the integer nearest to p / q (q > 0), ties to the even one. (A float that
\* is not a tie but prints as one, such as 0.05, rounds by its binary value;
\* no quotient within the bounds of the model is a tie.)
RoundHalfEven(p, q) ==
    LET f == p \div q
        r == p % q
    IN  IF 2 * r < q THEN f
        ELSE IF 2 * r > q THEN f + 1
        ELSE IF f % 2 = 0 THEN f ELSE f + 1

\* f"{p / q:.1f}", as the number of tenths it shows
Format1f(p, q) == RoundHalfEven(10 * p, q)

\* one row of generate_data_table: the seven columns, '' being {}; src is
\* not a column: it records the index of the entry the row was made from
Row(cs, i, current_year) ==
    LET e == cs[i]
        known == e.PUB_YEAR # {}
        pub == CHOOSE y \in e.PUB_YEAR : TRUE
        \* age = current_year - pub_year, as age_n / current_year.d
        age_n == current_year.n - pub * current_year.d
        rate == CHOOSE f \in e.SURVEY_ADOPTION_RATE : TRUE
    IN  [src |-> i,
         c0 |-> e.STANDARD,
         c1 |-> e.TYPE,
         c2 |-> e.BIB_KEY,
         c3 |-> e.PUB_YEAR,
         c4 |-> IF known /\ e.PM_CITATIONS # {}
                THEN {Format1f((CHOOSE c \in e.PM_CITATIONS : TRUE) * current_year.d, age_n)}
                ELSE {},
         c5 |-> IF known /\ e.GS_CITATIONS # {}
                THEN {Format1f((CHOOSE c \in e.GS_CITATIONS : TRUE) * current_year.d, age_n)}
                ELSE {},
         c6 |-> IF known /\ e.SURVEY_ADOPTION_RATE # {}
                THEN {Format1f(rate.n * 100, rate.d)}
                ELSE {}]

\* age <= 0 for an entry with a publication year
AgeNotPositive(e, current_year) ==
    /\ e.PUB_YEAR # {}
    /\ current_year.n - (CHOOSE y \in e.PUB_YEAR : TRUE) * current_year.d <= 0

\* float(curated_std[5])
SortKey(row) == CHOOSE k \in row.c5 : TRUE

\* a descending sort that is not stable: r goes in front of the rows of its key
InsertRowBeforeEqual(sorted, r) ==
    LET p == Cardinality({i \in DOMAIN sorted : SortKey(sorted[i]) > SortKey(r)})
    IN  SubSeq(sorted, 1, p) \o <<r>> \o SubSeq(sorted, p + 1, Len(sorted))

\* where list.sort(reverse=True) puts r among the rows sorted so far: behind
\* every row whose key is not smaller (the sort is stable)
InsertRow(sorted, r) ==
    LET p == Cardinality({i \in DOMAIN sorted : SortKey(sorted[i]) >= SortKey(r)})
    IN  SubSeq(sorted, 1, p) \o <<r>> \o SubSeq(sorted, p + 1, Len(sorted))

RECURSIVE sort_rows(_, _)
\* rows.sort(key=lambda curated_std: float(curated_std[5]), reverse=True)
\* of the first n rows
sort_rows(rows, n) ==
    IF n = 0 THEN <<>> ELSE InsertRow(sort_rows(rows, n - 1), rows[n])

RECURSIVE table_loop(_, _, _, _)
table_loop(cs, current_year, i, rows) ==
    IF i > Len(cs)
    THEN IF \E k \in DOMAIN rows : rows[k].c5 = {}
         THEN \* float('')
              [raised |-> "ValueError", visited |-> Len(cs), rows |-> <<>>]
         ELSE [raised |-> "none", visited |-> Len(cs),
               rows |-> sort_rows(rows, Len(rows))]
    ELSE IF cs[i].BIB_KEY = {}
    THEN \* curated_standard[self.BIB_KEY]
         [raised |-> "KeyError", visited |-> i - 1, rows |-> <<>>]
    ELSE IF AgeNotPositive(cs[i], current_year)
    THEN table_loop(cs, current_year, i + 1, rows)
    ELSE table_loop(cs, current_year, i + 1, Append(rows, Row(cs, i, current_year)))

\* CuratedStandards.generate_data_table, today being datetime.datetime.today()
generate_data_table(cs, today) == table_loop(cs, year_fraction(today), 1, <<>>)

----------------------------------------------------------------------------
(* What the services answer while the passes run                           *)

\* esummary answers by identifier: all well, a failed request for 11, a
\* pubdate without digits for 11
SummaryOk == [id \in PmIds |->
                 IF id = 11 THEN Summary(200, {2016}, T_Foo \o <<".">>)
                 ELSE IF id = 22 THEN Summary(200, {2019}, T_Bar \o <<".">>)
                 ELSE Summary(200, {2020}, T_foo \o <<".">>)]

SummaryErr == [SummaryOk EXCEPT ![11].status_code = 500]

SummaryNoYear == [SummaryOk EXCEPT ![11].year = {}]

World(status, ids, summary) ==
    [search |-> [status_code |-> status, ids |-> ids], summary |-> summary]

PassWorlds ==
    {World(500, <<>>, SummaryOk), World(200, <<>>, SummaryOk),
     World(200, <<22>>, SummaryOk), World(200, <<11, 22>>, SummaryOk),
     World(200, <<11, 22>>, SummaryErr), World(200, <<11, 22>>, SummaryNoYear)}

PassGsResponses ==
    GsResponses({{}, {2016}}, {{}, {2}}) \ {[organic_results |-> <<GsResult({}, {})>>]}

Elink(status, text) == [status_code |-> status, text |-> text]

PassElinkResponses == {Elink(500, <<>>), Elink(200, <<"LinkSet", "Id", "Id">>)}

PassBibliographies ==
    {<<[title |-> T_Foo, ID |-> "foo99"]>>,
     <<[title |-> T_Foo, ID |-> "foo99"], [title |-> T_Bar, ID |-> "bar01"]>>}

\* two respondents; only the tool A is named
PassSurveys ==
    {<<[q \in questions |-> IF q = 1 THEN <<"A">> ELSE <<>>],
       [q \in questions |-> IF q = 3 THEN <<>> ELSE <<"C">>]>>}

\* the stores the passes are run on
PassStores ==
    {cs \in LoadedStores :
        Len(cs) = NumEntries /\ \A i \in DOMAIN cs : cs[i].TITLE # T_foo}

----------------------------------------------------------------------------
(* The operations of CuratedStandards, called in any order                 *)

Init ==
    /\ curated_standards \in PassStores
    /\ bib_database \in PassBibliographies
    /\ survey \in PassSurveys
    /\ last = NoOutcome
    /\ pc = "any"
    /\ call = NoCall
    /\ net = "none"

\* an operation of the store: what it leaves in the store and reports
Finish(op, res) ==
    /\ curated_standards' = res.cs
    /\ last' = Outcome(op, res.raised, res.visited, res.missing, <<>>, NoDate)
    /\ UNCHANGED <<bib_database, survey, call, net>>

DoCheckAllTitles ==
    Finish("check_all_titles", check_all_titles(curated_standards, bib_database))

DoEnrichWithBibKey ==
    Finish("enrich_with_bib_key", enrich_with_bib_key(curated_standards, bib_database))

DoEnrichWithSurveyData ==
    Finish("enrich_with_survey_data", enrich_with_survey_data(curated_standards, survey))

DoEnrichWithGsData ==
    \E r \in [DOMAIN curated_standards -> PassGsResponses] :
        Finish("enrich_with_gs_data", enrich_with_gs_data(curated_standards, r))

DoEnrichWithPmIds ==
    \E r \in [DOMAIN curated_standards -> PassWorlds] :
        Finish("enrich_with_pm_ids", enrich_with_pm_ids(curated_standards, r))

DoEnrichWithNumPmCitations ==
    \E r \in [DOMAIN curated_standards -> PassElinkResponses] :
        Finish("enrich_with_num_pm_citations",
               enrich_with_num_pm_citations(curated_standards, r))

\* generate_data_table, called as op, and what it returns
Render(op) ==
    \E today \in Dates :
        LET res == generate_data_table(curated_standards, today)
        IN  /\ last' = Outcome(op, res.raised, res.visited, <<>>, res.rows, today)
            /\ UNCHANGED <<curated_standards, bib_database, survey, call, net>>

CheckAllTitles == DoCheckAllTitles /\ UNCHANGED pc

EnrichWithBibKey == DoEnrichWithBibKey /\ UNCHANGED pc

EnrichWithSurveyData == DoEnrichWithSurveyData /\ UNCHANGED pc

EnrichWithGsData == DoEnrichWithGsData /\ UNCHANGED pc

EnrichWithPmIds == DoEnrichWithPmIds /\ UNCHANGED pc

EnrichWithNumPmCitations == DoEnrichWithNumPmCitations /\ UNCHANGED pc

GenerateDataTable == Render("generate_data_table") /\ UNCHANGED pc

Next ==
    \/ CheckAllTitles
    \/ EnrichWithBibKey
    \/ EnrichWithSurveyData
    \/ EnrichWithGsData
    \/ EnrichWithPmIds
    \/ EnrichWithNumPmCitations
    \/ GenerateDataTable

Spec == Init /\ [][Next]_vars

----------------------------------------------------------------------------
(* main(): the same operations in the order of the script; an exception    *)
(* that leaves an operation ends the process                               *)

MainOrder ==
    <<"check_all_titles", "enrich_with_bib_key", "enrich_with_survey_data",
      "enrich_with_gs_data", "enrich_with_pm_ids", "enrich_with_num_pm_citations",
      "write_evaluated_standards_file", "output_latex_table",
      "output_latex_table_of_citations", "done">>

\* where main() is after the call step, which ended with raised
After(step, raised) ==
    IF raised # "none" THEN "aborted"
    ELSE MainOrder[(CHOOSE k \in DOMAIN MainOrder : MainOrder[k] = step) + 1]

MainInit ==
    /\ curated_standards \in PassStores
    /\ bib_database \in PassBibliographies
    /\ survey \in PassSurveys
    /\ last = NoOutcome
    /\ pc = MainOrder[1]
    /\ call = NoCall
    /\ net = "none"

MainCheckAllTitles ==
    /\ pc = "check_all_titles"
    /\ DoCheckAllTitles
    /\ pc' = After(pc, last'.raised)

MainEnrichWithBibKey ==
    /\ pc = "enrich_with_bib_key"
    /\ DoEnrichWithBibKey
    /\ pc' = After(pc, last'.raised)

MainEnrichWithSurveyData ==
    /\ pc = "enrich_with_survey_data"
    /\ DoEnrichWithSurveyData
    /\ pc' = After(pc, last'.raised)

MainEnrichWithGsData ==
    /\ pc = "enrich_with_gs_data"
    /\ DoEnrichWithGsData
    /\ pc' = After(pc, last'.raised)

MainEnrichWithPmIds ==
    /\ pc = "enrich_with_pm_ids"
    /\ DoEnrichWithPmIds
    /\ pc' = After(pc, last'.raised)

MainEnrichWithNumPmCitations ==
    /\ pc = "enrich_with_num_pm_citations"
    /\ DoEnrichWithNumPmCitations
    /\ pc' = After(pc, last'.raised)

\* write_evaluated_standards_file, output_latex_table and
\* output_latex_table_of_citations each begin with generate_data_table
MainWriteEvaluatedStandardsFile ==
    /\ pc = "write_evaluated_standards_file"
    /\ Render(pc)
    /\ pc' = After(pc, last'.raised)

MainOutputLatexTable ==
    /\ pc = "output_latex_table"
    /\ Render(pc)
    /\ pc' = After(pc, last'.raised)

MainOutputLatexTableOfCitations ==
    /\ pc = "output_latex_table_of_citations"
    /\ Render(pc)
    /\ pc' = After(pc, last'.raised)

MainNext ==
    \/ MainCheckAllTitles
    \/ MainEnrichWithBibKey
    \/ MainEnrichWithSurveyData
    \/ MainEnrichWithGsData
    \/ MainEnrichWithPmIds
    \/ MainEnrichWithNumPmCitations
    \/ MainWriteEvaluatedStandardsFile
    \/ MainOutputLatexTable
    \/ MainOutputLatexTableOfCitations

MainSpec == MainInit /\ [][MainNext]_vars

----------------------------------------------------------------------------
(* The bibliography pass on every store and bibliography of the bounds     *)

BibInit ==
    /\ curated_standards \in LoadedStores
    /\ bib_database \in Bibliographies
    /\ survey = <<>>
    /\ last = NoOutcome
    /\ pc = "any"
    /\ call = NoCall
    /\ net = "none"

BibNext ==
    \/ CheckAllTitles
    \/ EnrichWithBibKey

BibSpec == BibInit /\ [][BibNext]_vars

----------------------------------------------------------------------------
(* The survey pass on every survey of the bounds                           *)

SurveyStore == <<LoadedEntry("A", T_Foo), LoadedEntry("B", T_Bar)>>

SurveyInit ==
    /\ curated_standards = SurveyStore
    /\ bib_database = <<>>
    /\ survey \in Surveys
    /\ last = NoOutcome
    /\ pc = "any"
    /\ call = NoCall
    /\ net = "none"

SurveyNext == EnrichWithSurveyData

SurveySpec == SurveyInit /\ [][SurveyNext]_vars

----------------------------------------------------------------------------
(* NCBIUtils.get_pm_id on every answer of the services within the bounds   *)

\* what esummary may answer for one identifier
SummaryChoices ==
    {Summary(200, {2016}, t) : t \in RawTitles} \cup
    {Summary(500, {}, <<>>), Summary(200, {}, T_Foo \o <<".">>)}

PmIdWorlds ==
    {World(500, <<>>, sm) : sm \in {SummaryOk}} \cup
    {World(200, ids, sm) : ids \in SeqsUpTo(PmIds, MaxIds),
                           sm \in [PmIds -> SummaryChoices]}

PmIdInit ==
    /\ curated_standards = <<>>
    /\ bib_database = <<>>
    /\ survey = <<>>
    /\ last = NoOutcome
    /\ pc = "any"
    /\ \E title \in Titles, world \in PmIdWorlds :
           call = Call("get_pm_id", title, 0, world, FALSE, PmResult("none", {}, <<>>))
    /\ net = "none"

GetPmId ==
    /\ call.fn = "get_pm_id"
    /\ ~call.done
    /\ call' = [call EXCEPT !.done = TRUE,
                             !.result = get_pm_id(call.title, call.response)]
    /\ UNCHANGED <<curated_standards, bib_database, survey, last, pc, net>>

PmIdNext == GetPmId

PmIdSpec == PmIdInit /\ [][PmIdNext]_vars

----------------------------------------------------------------------------
(* NCBIUtils.get_num_citations on every elink answer within the bounds     *)

XmlTags == {"LinkSet", "Id", "Link"}

ElinkResponses ==
    {Elink(st, text) : st \in StatusCodes, text \in SeqsUpTo(XmlTags, MaxXmlLen)}

CitationsInit ==
    /\ curated_standards = <<>>
    /\ bib_database = <<>>
    /\ survey = <<>>
    /\ last = NoOutcome
    /\ pc = "any"
    /\ \E pm_id \in PmIds, response \in ElinkResponses :
           call = Call("get_num_citations", <<>>, pm_id, response, FALSE,
                       [raised |-> "none", num_citations |-> {}, errors |-> <<>>])
    /\ net = "none"

GetNumCitations ==
    /\ call.fn = "get_num_citations"
    /\ ~call.done
    /\ call' = [call EXCEPT !.done = TRUE,
                             !.result = get_num_citations(call.pm_id, call.response)]
    /\ UNCHANGED <<curated_standards, bib_database, survey, last, pc, net>>

CitationsNext == GetNumCitations

CitationsSpec == CitationsInit /\ [][CitationsNext]_vars

----------------------------------------------------------------------------
(* generate_data_table on every enriched store within the bounds           *)

\* what enrich_with_gs_data can have left in an entry: nothing, or both keys
GsFields ==
    {[cites |-> {}, year |-> {}]} \cup
    {[cites |-> {c}, year |-> {y}] : c \in 0 .. MaxCites, y \in PubYears}

\* what the two PubMed passes can have left in an entry: nothing, or an
\* identifier and the count of an elink answer with two Id elements
PmFields == {[id |-> {}, cites |-> {}], [id |-> {22}, cites |-> {1}]}

\* a loaded store after the bibliography pass with bib, the survey pass with
\* rows, and with the fields g[i] and p of the network passes
Enriched(cs, bib, rows, g, p) ==
    LET keyed == enrich_with_bib_key(cs, bib).cs
        rated == enrich_with_survey_data(keyed, rows).cs
    IN  [i \in DOMAIN cs |->
            [rated[i] EXCEPT !.GS_CITATIONS = g[i].cites, !.PUB_YEAR = g[i].year,
                             !.PM_ID = p.id, !.PM_CITATIONS = p.cites]]

TableInit ==
    /\ bib_database \in {<<>>} \cup PassBibliographies
    /\ survey \in {<<>>} \cup PassSurveys
    /\ \E cs \in PassStores, g \in [1 .. NumEntries -> GsFields], p \in PmFields :
           curated_standards = Enriched(cs, bib_database, survey, g, p)
    /\ last = NoOutcome
    /\ pc = "any"
    /\ call = NoCall
    /\ net = "none"

TableNext == GenerateDataTable

TableSpec == TableInit /\ [][TableNext]_vars

----------------------------------------------------------------------------
(* The clients followed line by line: time.sleep and the requests          *)

\* the esearch and esummary answers of the calls followed; no answer lists
\* an identifier twice, so the candidate looked up tells the position of
\* the loop of get_pm_id
ClientWorlds == PassWorlds \cup {World(200, <<11, 33, 22>>, SummaryOk)}

\* position of "for pm_id in pm_ids" when it looks up pm_id
CandidateIndex(pm_ids, pm_id) == CHOOSE k \in DOMAIN pm_ids : pm_ids[k] = pm_id

ClientInit ==
    /\ curated_standards = <<>>
    /\ bib_database = <<>>
    /\ survey = <<>>
    /\ last = NoOutcome
    /\ pc = "idle"
    /\ call = NoCall
    /\ net = "none"

\* the caller of the clients: a pass, between two calls
Idle == pc = "idle"

\* the client returns result to its caller
Return(result) ==
    /\ call' = [call EXCEPT !.done = TRUE, !.result = result]
    /\ pc' = "idle"

NoStore == UNCHANGED <<curated_standards, bib_database, survey, last>>

\* GoogleScholar().get_gs_results(title): up to client.get_json()
CallGetGsResults ==
    /\ Idle
    /\ \E title \in Titles, data \in PassGsResponses :
           call' = Call("get_gs_results", title, 0, data, FALSE,
                        [raised |-> "none", gs_title |-> <<>>, num_citations |-> 0,
                         pub_year |-> {}, errors |-> <<>>])
    /\ pc' = "get_gs_results:get_json"
    /\ UNCHANGED net
    /\ NoStore

\* data = client.get_json() and the rest of get_gs_results
GsGetJson ==
    /\ pc = "get_gs_results:get_json"
    /\ net' = "request"
    /\ Return(get_gs_results(call.title, call.response))
    /\ NoStore

\* NCBIUtils().get_pm_id(title): up to time.sleep
CallGetPmId ==
    /\ Idle
    /\ \E title \in Titles, world \in ClientWorlds :
           call' = Call("get_pm_id", title, 0, world, FALSE, PmResult("none", {}, <<>>))
    /\ pc' = "get_pm_id:sleep"
    /\ UNCHANGED net
    /\ NoStore

PmIdSleep ==
    /\ pc = "get_pm_id:sleep"
    /\ net' = "sleep"
    /\ pc' = "get_pm_id:get"
    /\ UNCHANGED call
    /\ NoStore

\* requests.get of esearch; get_pm_id returns unless it got several ids,
\* and then calls get_pub_metadata for the first
PmIdGet ==
    /\ pc = "get_pm_id:get"
    /\ net' = "request"
    /\ LET search == call.response.search
       IN  IF search.status_code = codes_ok /\ Len(search.ids) > 1
           THEN /\ call' = [call EXCEPT !.pm_id = search.ids[1]]
                /\ pc' = "get_pub_metadata:sleep"
           ELSE Return(get_pm_id(call.title, call.response))
    /\ NoStore

PubMetadataSleep ==
    /\ pc = "get_pub_metadata:sleep"
    /\ net' = "sleep"
    /\ pc' = "get_pub_metadata:get"
    /\ UNCHANGED call
    /\ NoStore

\* requests.get of esummary and the rest of the loop body of get_pm_id:
\* the loop goes on to the next candidate when this one was read without
\* error and its title does not match
PubMetadataGet ==
    /\ pc = "get_pub_metadata:get"
    /\ net' = "request"
    /\ LET pm_ids == call.response.search.ids
           k == CandidateIndex(pm_ids, call.pm_id)
           meta == get_pub_metadata(call.pm_id, call.response.summary[call.pm_id])
           goes_on == /\ meta.raised = "none"
                      /\ Len(meta.tuple) = 3
                      /\ meta.tuple[3] = <<>>
                      /\ ~title_matches(meta.tuple[2], call.title)
       IN  IF goes_on /\ k < Len(pm_ids)
           THEN /\ call' = [call EXCEPT !.pm_id = pm_ids[k + 1]]
                /\ pc' = "get_pub_metadata:sleep"
           ELSE Return(get_pm_id(call.title, call.response))
    /\ NoStore

\* NCBIUtils().get_num_citations(pm_id): up to time.sleep
CallGetNumCitations ==
    /\ Idle
    /\ \E pm_id \in PmIds, response \in PassElinkResponses :
           call' = Call("get_num_citations", <<>>, pm_id, response, FALSE,
                        [raised |-> "none", num_citations |-> {}, errors |-> <<>>])
    /\ pc' = "get_num_citations:sleep"
    /\ UNCHANGED net
    /\ NoStore

NumCitationsSleep ==
    /\ pc = "get_num_citations:sleep"
    /\ net' = "sleep"
    /\ pc' = "get_num_citations:get"
    /\ UNCHANGED call
    /\ NoStore

NumCitationsGet ==
    /\ pc = "get_num_citations:get"
    /\ net' = "request"
    /\ Return(get_num_citations(call.pm_id, call.response))
    /\ NoStore

ClientNext ==
    \/ CallGetGsResults
    \/ GsGetJson
    \/ CallGetPmId
    \/ PmIdSleep
    \/ PmIdGet
    \/ PubMetadataSleep
    \/ PubMetadataGet
    \/ CallGetNumCitations
    \/ NumCitationsSleep
    \/ NumCitationsGet

ClientSpec == ClientInit /\ [][ClientNext]_vars

----------------------------------------------------------------------------
(* The claims                                                              *)

\* C1: after enrich_with_bib_key has run, an entry has bib_key if and only
\* if some bibliography entry has exactly (case-sensitively) the entry's
\* Title, and then bib_key is the citation key of such an entry.
C1_BibKeyIffTitleInBibliography ==
    last.op = "enrich_with_bib_key" =>
        \A i \in DOMAIN curated_standards :
            LET e == curated_standards[i]
                hits == {k \in DOMAIN bib_database : bib_database[k].title = e.TITLE}
            IN  /\ e.BIB_KEY # {} <=> hits # {}
                /\ e.BIB_KEY \subseteq {bib_database[k].ID : k \in hits}

\* the pass has run on a store with an entry that got its key and an entry
\* whose title differs from a bibliography title only by case and got none
C1_Witness ==
    /\ last.op = "enrich_with_bib_key"
    /\ \E i, j \in DOMAIN curated_standards :
           /\ curated_standards[i].BIB_KEY # {}
           /\ curated_standards[j].BIB_KEY = {}
           /\ \E k \in DOMAIN bib_database :
                  /\ bib_database[k].title # curated_standards[j].TITLE
                  /\ casefold(bib_database[k].title) = casefold(curated_standards[j].TITLE)

EnrichOps ==
    {"enrich_with_bib_key", "enrich_with_survey_data", "enrich_with_gs_data",
     "enrich_with_pm_ids", "enrich_with_num_pm_citations"}

\* C2: no enrichment pass raises for a failure of one entry (a lookup miss,
\* a non-success HTTP status, a field or pattern missing from a response):
\* the pass returns normally, having visited every entry of the store.
C2_PassNeverRaises ==
    last.op \in EnrichOps =>
        /\ last.raised = "none"
        /\ last.visited = Len(curated_standards)

\* C3: whatever the enrichment left missing in the entries, the run of
\* main() reaches the renderer and generate_data_table returns a table:
\* the first call of the renderer in main() does not raise.
C3_RendererReturnsTable ==
    last.op = "write_evaluated_standards_file" => last.raised = "none"

\* C4: the rows generate_data_table returns are in non-increasing order of
\* the Google Scholar citations-per-year column, and rows with equal values
\* in it are in the order of their entries in the store.
C4_RowsSortedStably ==
    last.op = "generate_data_table" =>
        \A i, j \in DOMAIN last.rows :
            i < j =>
                /\ SortKey(last.rows[i]) >= SortKey(last.rows[j])
                /\ last.rows[i].c5 = last.rows[j].c5 => last.rows[i].src < last.rows[j].src

\* a table was returned with two rows of equal value in the column, made
\* from entries with different publication years
C4_Witness ==
    /\ last.op = "generate_data_table"
    /\ last.raised = "none"
    /\ \E i, j \in DOMAIN last.rows :
           /\ i < j
           /\ last.rows[i].c5 = last.rows[j].c5
           /\ curated_standards[last.rows[i].src].PUB_YEAR
                  # curated_standards[last.rows[j].src].PUB_YEAR

\* C5: no entry whose age is <= 0 has a row in the output of
\* generate_data_table, and every entry with a known publication year and
\* an age > 0 has exactly one row in it.
C5_RowsByAge ==
    last.op = "generate_data_table" =>
        \A i \in DOMAIN curated_standards :
            LET e == curated_standards[i]
                mine == {k \in DOMAIN last.rows : last.rows[k].src = i}
            IN  /\ AgeNotPositive(e, year_fraction(last.today)) => mine = {}
                /\ (e.PUB_YEAR # {} /\ ~AgeNotPositive(e, year_fraction(last.today)))
                       => Cardinality(mine) = 1

\* respondents whose answer to question q names tool
Selecting(rows, q, tool) ==
    Cardinality({i \in DOMAIN rows : \E k \in DOMAIN rows[i][q] : rows[i][q][k] = tool})

\* (respondents selecting tool in q) / (respondents answering q), 0 when
\* nobody answered q
UsageFraction(rows, q, tool) ==
    IF num_answers(rows, q) = 0 THEN Frac(0, 1)
    ELSE Frac(Selecting(rows, q, tool), num_answers(rows, q))

\* C6: after enrich_with_survey_data, an entry whose name appears in some
\* answer has as survey_adoption_rate the largest, over the three questions,
\* of (respondents selecting it) / (respondents answering the question);
\* an entry that no answer names has no survey_adoption_rate.
C6_RateIsLargestUsageFraction ==
    last.op = "enrich_with_survey_data" =>
        \A i \in DOMAIN curated_standards :
            LET e == curated_standards[i]
                named == \E q \in questions : Selecting(survey, q, e.STANDARD) > 0
                best == CHOOSE f \in {UsageFraction(survey, q, e.STANDARD) : q \in questions} :
                            \A q \in questions :
                                FracLeq(UsageFraction(survey, q, e.STANDARD), f)
            IN  IF named THEN e.SURVEY_ADOPTION_RATE = {best}
                ELSE e.SURVEY_ADOPTION_RATE = {}

\* the metadata of the k-th candidate of the call, as get_pub_metadata
\* returns it
CandidateMeta(k) ==
    get_pub_metadata(call.response.search.ids[k],
                     call.response.summary[call.response.search.ids[k]])

\* the k-th candidate's metadata was resolved: a year, a title, no error
Resolved(k) ==
    /\ CandidateMeta(k).raised = "none"
    /\ Len(CandidateMeta(k).tuple) = 3
    /\ CandidateMeta(k).tuple[3] = <<>>

\* the k-th candidate's resolved title is the query title, case ignored
CandidateMatches(k) ==
    /\ Resolved(k)
    /\ casefold(CandidateMeta(k).tuple[2]) = casefold(call.title)

\* a call of get_pm_id has returned whose search listed several identifiers
SeveralCandidates ==
    /\ call.fn = "get_pm_id"
    /\ call.done
    /\ call.response.search.status_code = codes_ok
    /\ Len(call.response.search.ids) > 1

Least(n, P(_)) ==
    IF \E k \in 1 .. n : P(k)
    THEN CHOOSE k \in 1 .. n : P(k) /\ \A j \in 1 .. (k - 1) : ~P(j)
    ELSE n + 1

Unresolved(k) == ~Resolved(k)

C8_PassesIdempotent ==
    LET cs == curated_standards
        bib1 == enrich_with_bib_key(cs, bib_database).cs
        survey1 == enrich_with_survey_data(cs, survey).cs
    IN  /\ enrich_with_bib_key(bib1, bib_database).cs = bib1
        /\ enrich_with_survey_data(survey1, survey).cs = survey1
        /\ \A r \in [DOMAIN cs -> PassGsResponses] :
               LET once == enrich_with_gs_data(cs, r).cs
               IN  enrich_with_gs_data(once, r).cs = once
        /\ \A r \in [DOMAIN cs -> PassWorlds] :
               LET once == enrich_with_pm_ids(cs, r).cs
               IN  enrich_with_pm_ids(once, r).cs = once
        /\ \A r \in [DOMAIN cs -> PassElinkResponses] :
               LET once == enrich_with_num_pm_citations(cs, r).cs
               IN  enrich_with_num_pm_citations(once, r).cs = once

\* a store in which every pass has already written its field of one entry,
\* so that the runs compared overwrite what earlier runs stored
C8_Witness ==
    \E i \in DOMAIN curated_standards :
        LET e == curated_standards[i]
        IN  /\ e.BIB_KEY # {} /\ e.SURVEY_ADOPTION_RATE # {}
            /\ e.GS_CITATIONS = {2} /\ e.PUB_YEAR # {}
            /\ e.PM_ID # {} /\ e.PM_CITATIONS # {}

\* the operation that wrote the field may write it
WrittenOnlyBy(field, op) ==
    \A i \in DOMAIN curated_standards :
        curated_standards'[i][field] # curated_standards[i][field] => last'.op = op

\* C9: in every step, every entry keeps its Title, name and type; bib_key
\* changes only in the bib-key pass, survey_adoption_rate only in the survey
\* pass, GS_citations and pub_year only in the scholar pass, PM_id only in
\* the identifier pass, PM_citations only in the citation-count pass; and
\* check_all_titles and generate_data_table change no entry.
C9_Frame ==
    [][/\ DOMAIN curated_standards' = DOMAIN curated_standards
       /\ \A i \in DOMAIN curated_standards :
              /\ curated_standards'[i].TITLE = curated_standards[i].TITLE
              /\ curated_standards'[i].STANDARD = curated_standards[i].STANDARD
              /\ curated_standards'[i].TYPE = curated_standards[i].TYPE
       /\ WrittenOnlyBy("BIB_KEY", "enrich_with_bib_key")
       /\ WrittenOnlyBy("SURVEY_ADOPTION_RATE", "enrich_with_survey_data")
       /\ WrittenOnlyBy("GS_CITATIONS", "enrich_with_gs_data")
       /\ WrittenOnlyBy("PUB_YEAR", "enrich_with_gs_data")
       /\ WrittenOnlyBy("PM_ID", "enrich_with_pm_ids")
       /\ WrittenOnlyBy("PM_CITATIONS", "enrich_with_num_pm_citations")
       /\ last'.op \in {"check_all_titles", "generate_data_table"} =>
              curated_standards' = curated_standards]_vars

\* the renderer has returned a table of a store in which the scholar pass
\* and the two PubMed passes had written their fields
C9_Witness ==
    /\ last.op = "generate_data_table"
    /\ last.raised = "none"
    /\ \E i \in DOMAIN curated_standards :
           /\ curated_standards[i].GS_CITATIONS # {}
           /\ curated_standards[i].PM_CITATIONS # {}

RECURSIVE CountIds(_)
\* the Id elements of a response
CountIds(text) ==
    IF text = <<>> THEN 0
    ELSE (IF Head(text) = "Id" THEN 1 ELSE 0) + CountIds(Tail(text))

\* C10: the citation count get_num_citations returns for a cross-reference
\* response is the number of Id elements of the response minus one.
C10_CountIsIdsMinusOne ==
    (call.fn = "get_num_citations" /\ call.done) =>
        /\ call.result.num_citations \subseteq {CountIds(call.response.text) - 1}
        /\ call.result.raised = "none" => call.result.num_citations # {}

\* a response with five Id elements, for which 4 was returned
C10_Witness ==
    /\ call.fn = "get_num_citations"
    /\ call.done
    /\ CountIds(call.response.text) = 5
    /\ call.result.num_citations = {4}

\* the entries of a store that carry PM_id
WithPmId(cs) == {i \in DOMAIN cs : cs[i].PM_ID # {}}

\* C11: in every state reachable by running the passes in any order and any
\* number of times, an entry has PM_citations only if it has PM_id; and the
\* citation-count pass run in that state leaves every entry without PM_id as
\* it is and depends on no elink answer but those for the entries with
\* PM_id, so that on a store without any PM_id it writes nothing.
C11_PmCitationsOnlyWithPmId ==
    LET cs == curated_standards
        elink_answers == [DOMAIN cs -> PassElinkResponses]
    IN  /\ \A i \in DOMAIN cs : cs[i].PM_CITATIONS # {} => cs[i].PM_ID # {}
        /\ \A r \in elink_answers :
               LET res == enrich_with_num_pm_citations(cs, r)
               IN  /\ \A i \in DOMAIN cs \ WithPmId(cs) : res.cs[i] = cs[i]
                   /\ WithPmId(cs) = {} => res.cs = cs /\ res.raised = "none"
                   /\ \A r2 \in elink_answers :
                          (\A i \in WithPmId(cs) : r2[i] = r[i]) =>
                              enrich_with_num_pm_citations(cs, r2) = res

\* the citation-count pass has run on a store in which one entry has PM_id
\* and got its PM_citations, and another has no PM_id and got none
C11_Witness ==
    /\ last.op = "enrich_with_num_pm_citations"
    /\ \E i, j \in DOMAIN curated_standards :
           /\ curated_standards[i].PM_ID # {}
           /\ curated_standards[i].PM_CITATIONS # {}
           /\ curated_standards[j].PM_ID = {}
           /\ curated_standards[j].PM_CITATIONS = {}

\* C12: after enrich_with_survey_data on any survey, answers that name the
\* same tool twice included, every survey_adoption_rate stored in an entry
\* is at least 0 and at most 1.
C12_RateInUnitInterval ==
    last.op = "enrich_with_survey_data" =>
        \A i \in DOMAIN curated_standards :
            \A f \in curated_standards[i].SURVEY_ADOPTION_RATE :
                FracLeq(Frac(0, 1), f) /\ FracLeq(f, Frac(1, 1))

\* the lines at which a client sends a request: client.get_json() and the
\* three requests.get
RequestLines ==
    {"get_gs_results:get_json", "get_pm_id:get", "get_pub_metadata:get",
     "get_num_citations:get"}

\* C13: whenever a client of either kind is about to send a request, the
\* last thing a client did on the network is the pacing delay: no request
\* is the first network event, and none follows a request without a
\* time.sleep between them.
C13_RequestFollowsDelay == pc \in RequestLines => net = "sleep"

====
